---- MODULE Spec2Model ----
(***************************************************************************)
(* Model of the SSD1306 display driver of mt32-pi (src/lcd/ssd1306.cpp):   *)
(* the compile-time font conversion, the framebuffer primitives, the glyph *)
(* blitter, the part-level bar rasterizer and the driver facade.           *)
(***************************************************************************)
EXTENDS Integers, Sequences, FiniteSets

VARIABLES
    m_nHeight,      \* display height handed to the constructor
    m_Rotation,     \* "Normal" or "Inverted"
    m_Framebuffer,  \* [0..FramebufferSize-1 -> 0..255]
    m_PartLevels,   \* nine level numerators, level = n / LevelSteps
    m_PeakLevels,   \* nine peak numerators, peak = n / LevelSteps
    m_TextBuffer,   \* status text, a sequence of character codes
    call,           \* the last operation and its arguments
    setBefore,      \* the SetPixel call made just before the last operation, if any
    ret,            \* what the last operation returned
    events,         \* DrawChar calls and transport writes of the last operation, in order
    overrun,        \* a store fell outside m_Framebuffer
    budget,         \* operations left in this run
    fontCall,       \* one evaluation of SingleColumn / DoubleColumn
    barCall         \* one evaluation of the per-part page computation

vars == <<m_nHeight, m_Rotation, m_Framebuffer, m_PartLevels, m_PeakLevels,
          m_TextBuffer, call, setBefore, ret, events, overrun, budget, fontCall, barCall>>

driverVars == <<m_nHeight, m_Rotation, m_Framebuffer, m_PartLevels, m_PeakLevels,
                m_TextBuffer, call, setBefore, ret, events, overrun, budget>>

----
(* Fixed-width integer helpers *)

Pow2(n) == 2 ^ n

Bit(v, i) == (v \div Pow2(i)) % 2

Shl(v, n) == v * Pow2(n)

Shr(v, n) == v \div Pow2(n)

RECURSIVE BitOr(_, _)
BitOr(a, b) ==
    IF a = 0 THEN b
    ELSE IF b = 0 THEN a
    ELSE (IF a % 2 = 1 \/ b % 2 = 1 THEN 1 ELSE 0) + 2 * BitOr(a \div 2, b \div 2)

RECURSIVE BitAnd(_, _)
BitAnd(a, b) ==
    IF a = 0 \/ b = 0 THEN 0
    ELSE (IF a % 2 = 1 /\ b % 2 = 1 THEN 1 ELSE 0) + 2 * BitAnd(a \div 2, b \div 2)

RECURSIVE BitXor(_, _)
BitXor(a, b) ==
    IF a = 0 THEN b
    ELSE IF b = 0 THEN a
    ELSE (IF a % 2 # b % 2 THEN 1 ELSE 0) + 2 * BitXor(a \div 2, b \div 2)

U8(v) == v % 256

U16(v) == v % 65536

Min(a, b) == IF a < b THEN a ELSE b

----
(* Font conversion *)

\* column |= (CharData[i] >> bit & 1) << i, for i = i .. 7
RECURSIVE SingleColumnLoop(_, _, _, _)
SingleColumnLoop(CharData, bit, i, column) ==
    IF i < 8
    THEN SingleColumnLoop(CharData, bit, i + 1,
                          U8(BitOr(column, Shl(BitAnd(Shr(CharData[i], bit), 1), i))))
    ELSE column

\* the column read least-significant-first
SingleColumnLsbFirst(CharData, nColumn) ==
    SingleColumnLoop(CharData, nColumn, 0, 0)

SingleColumn(CharData, nColumn) ==
    LET bit == U8(5 - nColumn)
    IN  SingleColumnLoop(CharData, bit, 0, 0)

\* column |= bit << i * 2 | bit << (i * 2 + 1), for i = i .. 7
RECURSIVE DoubleColumnLoop(_, _, _)
DoubleColumnLoop(singleColumn, i, column) ==
    IF i < 8
    THEN LET bit == BitAnd(Shr(singleColumn, i), 1)
         IN  DoubleColumnLoop(singleColumn, i + 1,
                 U16(BitOr(column, BitOr(Shl(bit, i * 2), Shl(bit, i * 2 + 1)))))
    ELSE column

DoubleColumn(CharData, nColumn) ==
    LET singleColumn == SingleColumn(CharData, nColumn)
    IN  DoubleColumnLoop(singleColumn, 0, 0)

\* Row bytes the glyphs under conversion are built from: the two alternating
\* 6-bit patterns give every column every bit pattern, 0xC3 sets the two
\* bits of a row byte that carry no pixel.
RowValues == {42, 21, 195}

GlyphSet == [0..7 -> RowValues]

FontIdle == [state |-> "idle", CharData |-> [i \in 0..7 |-> 0], nColumn |-> 0,
             single |-> 0, double |-> 0]

\* Font<N, F>::Font fills mCharData[i][j] = Function(CharData[i], j) for j < 6
FontConvert ==
    /\ fontCall.state = "input"
    /\ fontCall' = [fontCall EXCEPT
                       !.state = "done",
                       !.single = SingleColumn(fontCall.CharData, fontCall.nColumn),
                       !.double = DoubleColumn(fontCall.CharData, fontCall.nColumn)]
    /\ UNCHANGED <<driverVars, barCall>>

----
(* Bar rasterizer: the page bytes of one part *)

\* finest level fraction the level inputs are drawn from: level = n / LevelSteps
LevelSteps == 48

Heights == {32, 48, 64}

TotalPages(nHeight) == U8(nHeight \div 8 - 2)

BarHeight(nHeight) == U8(nHeight - 8 * 2)

\* const u8 pixels = level * barHeight: the product truncated towards zero
LevelPixels(n, barHeight) == U8((n * barHeight) \div LevelSteps)

\* pageValues[idx] = val; a store outside the array leaves the array alone
PageStore(pv, idx, val) ==
    [pageValues |-> IF idx \in DOMAIN pv.pageValues
                    THEN [pv.pageValues EXCEPT ![idx] = val]
                    ELSE pv.pageValues,
     stores     |-> pv.stores \cup {idx}]

PageLoad(pv, idx) == IF idx \in DOMAIN pv.pageValues THEN pv.pageValues[idx] ELSE 0

\* for (j = from; j < to; ++j) pageValues[j] = val
RECURSIVE FillPages(_, _, _, _)
FillPages(pv, j, to, val) ==
    IF j < to THEN FillPages(PageStore(pv, j, val), j + 1, to, val) ELSE pv

\* the mask taken from the other end of the byte
PartialMaskFromTop(remainder) == Shr(255, 8 - remainder)

PartialMask(remainder) == U8(Shl(255, 8 - remainder))

\* the marker drawn whenever peaks are requested
PeakDrawnAlways(bDrawPeaks, peakLevelPixels) == bDrawPeaks

PeakDrawn(bDrawPeaks, peakLevelPixels) == bDrawPeaks /\ peakLevelPixels # 0

\* the marker always stored in page peakPage
PeakTargetSamePage(peakLevelPixels) ==
    LET peakPage  == U8(peakLevelPixels \div 8)
        remainder == U8(peakLevelPixels % 8)
    IN  [page |-> peakPage, mask |-> U8(Shl(1, (8 - remainder) % 8))]

PeakTarget(peakLevelPixels) ==
    LET peakPage  == U8(peakLevelPixels \div 8)
        remainder == U8(peakLevelPixels % 8)
    IN  IF remainder # 0
        THEN [page |-> peakPage,     mask |-> Shl(1, 8 - remainder)]
        ELSE [page |-> peakPage - 1, mask |-> 1]

PartPages(totalPages, partLevelPixels, peakLevelPixels, bDrawPeaks) ==
    LET fullPages == U8(partLevelPixels \div 8)
        remainder == U8(partLevelPixels % 8)
        pv0 == [pageValues |-> [k \in 0..(totalPages - 1) |-> 0], stores |-> {}]
        pv1 == FillPages(pv0, 0, fullPages, 255)
        pv2 == FillPages(pv1, fullPages, totalPages, 0)
        pv3 == IF remainder # 0
               THEN PageStore(pv2, fullPages, PartialMask(remainder))
               ELSE pv2
        tgt == PeakTarget(peakLevelPixels)
    IN  IF PeakDrawn(bDrawPeaks, peakLevelPixels)
        THEN PageStore(pv3, tgt.page, U8(BitOr(PageLoad(pv3, tgt.page), tgt.mask)))
        ELSE pv3

BarIdle == [state |-> "idle", nHeight |-> 64, part |-> 0, peak |-> 0,
            bDrawPeaks |-> FALSE, partLevelPixels |-> 0, peakLevelPixels |-> 0,
            pageValues |-> <<>>, stores |-> {}]

\* one iteration of the "for each part" loop, up to the peak meter
BarRasterize ==
    /\ barCall.state = "input"
    /\ LET barHeight == BarHeight(barCall.nHeight)
           partPx    == LevelPixels(barCall.part, barHeight)
           peakPx    == LevelPixels(barCall.peak, barHeight)
           pv        == PartPages(TotalPages(barCall.nHeight), partPx, peakPx,
                                  barCall.bDrawPeaks)
       IN  barCall' = [barCall EXCEPT
                          !.state = "done",
                          !.partLevelPixels = partPx,
                          !.peakLevelPixels = peakPx,
                          !.pageValues = pv.pageValues,
                          !.stores = pv.stores]
    /\ UNCHANGED <<driverVars, fontCall>>

----
(* Driver state and framebuffer primitives *)

Width      == 128
BarWidth   == 12
BarSpacing == 2
BarOffset  == 2

\* u8 m_Framebuffer[128 * 64 / 8 + 1]: one control byte and the pages of the
\* largest supported geometry
FramebufferSize == 1025

ControlByte == 64

\* the constructor arguments of the drivers under check: both supported
\* heights, both rotations, and one height the constructor's assertion rejects
Configurations == {<<32, "Normal">>, <<64, "Inverted">>, <<48, "Normal">>}

\* m_Framebuffer[idx] = val; a store past the array lands in other memory
Store(st, idx, val) ==
    IF idx >= 0 /\ idx < FramebufferSize
    THEN [st EXCEPT !.fb[idx] = val]
    ELSE [st EXCEPT !.overrun = TRUE]

\* m_pI2CMaster->Write(m_nAddress, buffer, len), as seen on the bus
WriteEvent(len, first, second, ok) ==
    [kind |-> "Write", len |-> len, first |-> first, second |-> second, ok |-> ok]

\* const u8 initSequence[] of Initialize
InitSequence(nHeight, Rotation) ==
    LET pageAddrRange  == IF nHeight = 32 THEN 3 ELSE 7
        segRemap       == IF Rotation = "Inverted" THEN 160 ELSE 161
        comScanDir     == IF Rotation = "Inverted" THEN 192 ELSE 200
        multiplexRatio == U8(nHeight - 1)
        comPins        == IF nHeight = 32 THEN 2 ELSE 18
    IN  <<174, 129, 127, 166, 32, 0, 33, 0, 127, 34, 0, pageAddrRange,
          segRemap, 168, multiplexRatio, comScanDir, 211, 0, 218, comPins,
          213, 128, 217, 34, 219, 32, 141, 20, 164, 175>>

InitLen == 30

\* the height check skipped
HeightSupportedAny(nHeight) == TRUE

HeightSupported(nHeight) == nHeight = 32 \/ nHeight = 64

\* the offset taken from the unmasked column
PixelOffsetUnmasked(nX, nY) ==
    LET y == BitAnd(nY, 63)
    IN  Shl(BitAnd(y, 248), 4) + nX + 1

\* the byte offset and the bit of pixel (nX, nY) after masking
PixelOffset(nX, nY) ==
    LET x == BitAnd(nX, 127)
        y == BitAnd(nY, 63)
    IN  Shl(BitAnd(y, 248), 4) + x + 1

PixelBit(nY) == BitAnd(BitAnd(nY, 63), 7)

\* WriteFramebuffer: one write of m_nHeight * 16 + 1 bytes from m_Framebuffer
FlushEvent(fb, nHeight, ok) == WriteEvent(nHeight * 16 + 1, fb[0], fb[1], ok)

\* memset starting at the control byte
ClearedFromStart(fb, nHeight) ==
    [idx \in 0..(FramebufferSize - 1) |->
        IF idx < (Width * nHeight) \div 8 THEN 0 ELSE fb[idx]]

\* memset(m_Framebuffer + 1, 0, Width * m_nHeight / 8)
Cleared(fb, nHeight) ==
    [idx \in 0..(FramebufferSize - 1) |->
        IF idx >= 1 /\ idx < 1 + (Width * nHeight) \div 8 THEN 0 ELSE fb[idx]]

----
(* Glyph blitter *)

\* Rows of the glyphs of Font6x8 the model prints, by index chChar - ' ':
\* space, 'H', 'I' and the placeholder at 0x80
Font6x8 ==
    [idx \in {0, 40, 41, 96} |->
        CASE idx = 0  -> [i \in 0..7 |-> 0]
          [] idx = 40 -> [i \in 0..7 |-> IF i = 7 THEN 0 ELSE IF i = 3 THEN 62 ELSE 34]
          [] idx = 41 -> [i \in 0..7 |-> IF i = 7 THEN 0 ELSE IF i \in {0, 6} THEN 28 ELSE 8]
          [] idx = 96 -> [i \in 0..7 |-> IF i = 7 THEN 0 ELSE 63]]

\* constexpr auto FontDouble = Font<...>(Font6x8, DoubleColumn):
\* mCharData[i][j] = Function(CharData[i], j), computed once
FontDouble ==
    [nIndex \in DOMAIN Font6x8 |-> [j \in 0..5 |-> DoubleColumn(Font6x8[nIndex], j)]]

ColumnOffset(nCursorX, bDoubleWidth) ==
    nCursorX * (IF bDoubleWidth THEN 12 ELSE 6) + 5

\* the body of DrawChar's loop, for i = i .. 5
RECURSIVE DrawCharLoop(_, _, _, _, _, _, _)
DrawCharLoop(st, chChar, rowOffset, columnOffset, bInverted, bDoubleWidth, i) ==
    IF i < 6
    THEN LET column0    == FontDouble[U8(chChar - 32)][i]
             column1    == IF i > 0 /\ bInverted THEN BitXor(column0, 16383) ELSE column0
             fontColumn == U16(Shl(column1, 2))
             offset     == rowOffset + columnOffset + (IF bDoubleWidth THEN i * 2 ELSE i)
             lo         == BitAnd(fontColumn, 255)
             hi         == BitAnd(Shr(fontColumn, 8), 255)
             st1        == Store(Store(st, offset, lo), offset + Width, hi)
             st2        == IF bDoubleWidth
                           THEN Store(Store(st1, offset + 1, lo), offset + Width + 1, hi)
                           ELSE st1
         IN  DrawCharLoop(st2, chChar, rowOffset, columnOffset, bInverted, bDoubleWidth, i + 1)
    ELSE st

DrawCharEvent(chChar, nCursorX, nCursorY) ==
    [kind |-> "DrawChar", chChar |-> chChar, nCursorX |-> nCursorX, nCursorY |-> nCursorY]

DrawCharOn(st, chChar, nCursorX, nCursorY, bInverted, bDoubleWidth) ==
    LET rowOffset    == nCursorY * Width * 2
        columnOffset == ColumnOffset(nCursorX, bDoubleWidth)
        ch           == IF chChar = 255 THEN 128 ELSE chChar
        st1          == [st EXCEPT !.events = Append(@, DrawCharEvent(chChar, nCursorX, nCursorY))]
    IN  DrawCharLoop(st1, ch, rowOffset, columnOffset, bInverted, bDoubleWidth, 0)

\* the drawing so far, evaluated before the next character is drawn
Drawn(st) == Len(st.events) <= 255

\* while (*pText && nCursorX < 20) { DrawChar(*pText++, nCursorX, nCursorY); ++nCursorX; }
RECURSIVE PrintChars(_, _, _, _, _)
PrintChars(st, pText, k, nCursorX, nCursorY) ==
    IF Drawn(st) /\ k <= Len(pText) /\ nCursorX < 20
    THEN PrintChars(DrawCharOn(st, pText[k], nCursorX, nCursorY, FALSE, FALSE),
                   pText, k + 1, U8(nCursorX + 1), nCursorY)
    ELSE [st |-> st, nCursorX |-> nCursorX]

\* padding that stops one cell short of the line end
RECURSIVE PrintPadShort(_, _, _)
PrintPadShort(st, nCursorX, nCursorY) ==
    IF Drawn(st) /\ nCursorX < 19
    THEN PrintPadShort(DrawCharOn(st, 32, nCursorX, nCursorY, FALSE, FALSE),
                       U8(nCursorX + 1), nCursorY)
    ELSE st

\* while (nCursorX < 20) DrawChar(' ', nCursorX++, nCursorY);
RECURSIVE PrintPad(_, _, _)
PrintPad(st, nCursorX, nCursorY) ==
    IF Drawn(st) /\ nCursorX < 20
    THEN PrintPad(DrawCharOn(st, 32, nCursorX, nCursorY, FALSE, FALSE),
                  U8(nCursorX + 1), nCursorY)
    ELSE st

Flushed(st, nHeight, ok) ==
    [st EXCEPT !.events = Append(@, FlushEvent(st.fb, nHeight, ok))]

PrintOn(st, nHeight, pText, nCursorX, nCursorY, bClearLine, bImmediate, ok) ==
    LET t   == PrintChars(st, pText, 1, nCursorX, nCursorY)
        st1 == IF bClearLine THEN PrintPad(t.st, t.nCursorX, nCursorY) ELSE t.st
    IN  IF bImmediate THEN Flushed(st1, nHeight, ok) ELSE st1

----
(* Bar rasterizer on the framebuffer *)

\* every store made so far, evaluated before the loop goes on
Stored(st) == st.overrun \in BOOLEAN

\* for (k = k; k < totalPages; ++k) m_Framebuffer[offset + 1] = pageValues[k]
RECURSIVE BarRows(_, _, _, _, _, _, _)
BarRows(st, pageValues, firstPageOffset, totalPages, i, j, k) ==
    IF k < totalPages
    THEN LET offset == firstPageOffset + BarOffset
                       + ((totalPages - 1) * Width - k * Width)
                       + (i * (BarWidth + BarSpacing) + j)
         IN  BarRows(Store(st, offset + 1, pageValues[k]),
                     pageValues, firstPageOffset, totalPages, i, j, k + 1)
    ELSE st

\* for (j = j; j < BarWidth; ++j) ...
RECURSIVE BarColumns(_, _, _, _, _, _)
BarColumns(st, pageValues, firstPageOffset, totalPages, i, j) ==
    IF Stored(st) /\ j < BarWidth
    THEN BarColumns(BarRows(st, pageValues, firstPageOffset, totalPages, i, j, 0),
                    pageValues, firstPageOffset, totalPages, i, j + 1)
    ELSE st

\* for (i = i; i < 9; ++i) ...
RECURSIVE BarParts(_, _, _, _, _, _, _)
BarParts(st, nHeight, PartLevels, PeakLevels, firstPageOffset, bDrawPeaks, i) ==
    IF Stored(st) /\ i < 9
    THEN LET totalPages == TotalPages(nHeight)
             barHeight  == BarHeight(nHeight)
             pv == PartPages(totalPages, LevelPixels(PartLevels[i + 1], barHeight),
                             LevelPixels(PeakLevels[i + 1], barHeight), bDrawPeaks)
         IN  BarParts(BarColumns(st, pv.pageValues, firstPageOffset, totalPages, i, 0),
                      nHeight, PartLevels, PeakLevels, firstPageOffset, bDrawPeaks, i + 1)
    ELSE st

DrawPartLevelsOn(st, nHeight, PartLevels, PeakLevels, nFirstRow, bDrawPeaks) ==
    BarParts(st, nHeight, PartLevels, PeakLevels, nFirstRow * Width, bDrawPeaks, 0)

----
(* Operations of the driver *)

\* operations in one run of the driver
MaxOps == 2

\* operations in one run of the pixel primitives
MaxPixelOps == 3

PixelCoords == {<<0, 0>>, <<0, 64>>, <<127, 40>>, <<255, 40>>, <<127, 43>>}

Chars == {72, 255}

Cells == {<<0, 0>>, <<19, 1>>}

\* the texts printed and the cells they start at: the empty string, "HI\xFF"
\* from the first column, and "HI\xFF" running into the 20-column limit
PrintArgs == {<<<<>>, 0, 0>>, <<<<72, 73, 255>>, 0, 0>>, <<<<72, 73, 255>>, 18, 1>>}

ZeroLevels == [i \in 1..9 |-> 0]

\* a ramp of levels from 0 to 1 with every peak one eighth above its level
RampLevels == [i \in 1..9 |-> ((i - 1) * LevelSteps) \div 8]

RampPeaks == [i \in 1..9 |-> Min(LevelSteps, RampLevels[i] + LevelSteps \div 8)]

\* what one Update reads from the synth: the status text and the levels
UpdateInputs == {[text |-> <<72, 73, 255>>, part |-> RampLevels, peak |-> RampPeaks]}

\* which of Initialize's writes the transport fails: 0 for none
InitFailPoints == {0, 1, InitLen}

\* default arguments of the class declaration: DrawPartLevels(nFirstRow,
\* bDrawPeaks = true), Print(..., bClearLine = false, bImmediate = false)
DefaultDrawPeaks == TRUE

DefaultImmediate == FALSE

NoCall == [op |-> "none", args |-> <<>>, old |-> -1]

Ready == budget > 0 /\ ~overrun

\* assert(nHeight == 32 || nHeight == 64) of the constructor: a driver of
\* another height exists only where the assertion is compiled out, and
\* Initialize refuses it; it is modelled up to that refusal
Constructed == m_nHeight = 32 \/ m_nHeight = 64

Begin == [fb |-> m_Framebuffer, overrun |-> overrun, events |-> <<>>]

Finish(op, args, old, r, st) ==
    /\ call' = [op |-> op, args |-> args, old |-> old]
    /\ setBefore' = IF call.op = "SetPixel" THEN call ELSE NoCall
    /\ ret' = r
    /\ events' = st.events
    /\ m_Framebuffer' = st.fb
    /\ overrun' = st.overrun
    /\ budget' = budget - 1

\* the command frames {0x80, byte} of Initialize, frame failAt failing
InitEvents(seq, failAt) ==
    [n \in 1..Len(seq) |-> WriteEvent(2, 128, seq[n], n # failAt)]

Initialize ==
    /\ Ready
    /\ \E failAt \in InitFailPoints :
          IF ~HeightSupported(m_nHeight)
          THEN Finish("Initialize", <<>>, -1, "false", Begin)
          ELSE Finish("Initialize", <<>>, -1, "true",
                      [Begin EXCEPT !.events =
                          InitEvents(InitSequence(m_nHeight, m_Rotation), failAt)])
    /\ UNCHANGED <<m_nHeight, m_Rotation, m_PartLevels, m_PeakLevels, m_TextBuffer,
                   fontCall, barCall>>

WriteFramebuffer ==
    /\ Ready
    /\ Constructed
    /\ \E ok \in BOOLEAN :
          Finish("WriteFramebuffer", <<>>, -1, "void", Flushed(Begin, m_nHeight, ok))
    /\ UNCHANGED <<m_nHeight, m_Rotation, m_PartLevels, m_PeakLevels, m_TextBuffer,
                   fontCall, barCall>>

SetPixel ==
    /\ Ready
    /\ Constructed
    /\ \E c \in PixelCoords :
          LET nX  == c[1]
              nY  == c[2]
              off == PixelOffset(nX, nY)
              old == m_Framebuffer[off]
          IN  Finish("SetPixel", <<nX, nY>>, old, "void",
                     Store(Begin, off, U8(BitOr(old, Shl(1, PixelBit(nY))))))
    /\ UNCHANGED <<m_nHeight, m_Rotation, m_PartLevels, m_PeakLevels, m_TextBuffer,
                   fontCall, barCall>>

ClearPixel ==
    /\ Ready
    /\ Constructed
    /\ \E c \in PixelCoords :
          LET nX  == c[1]
              nY  == c[2]
              off == PixelOffset(nX, nY)
              old == m_Framebuffer[off]
          IN  Finish("ClearPixel", <<nX, nY>>, old, "void",
                     Store(Begin, off, BitAnd(old, 255 - Shl(1, PixelBit(nY)))))
    /\ UNCHANGED <<m_nHeight, m_Rotation, m_PartLevels, m_PeakLevels, m_TextBuffer,
                   fontCall, barCall>>

DrawChar ==
    /\ Ready
    /\ Constructed
    /\ \E chChar \in Chars, c \in Cells, bInverted \in BOOLEAN, bDoubleWidth \in BOOLEAN :
          Finish("DrawChar", <<chChar, c[1], c[2], bInverted, bDoubleWidth>>, -1, "void",
                 DrawCharOn(Begin, chChar, c[1], c[2], bInverted, bDoubleWidth))
    /\ UNCHANGED <<m_nHeight, m_Rotation, m_PartLevels, m_PeakLevels, m_TextBuffer,
                   fontCall, barCall>>

DrawPartLevels ==
    /\ Ready
    /\ Constructed
    /\ \E bDrawPeaks \in BOOLEAN :
          Finish("DrawPartLevels", <<0, bDrawPeaks>>, -1, "void",
                 DrawPartLevelsOn(Begin, m_nHeight, m_PartLevels, m_PeakLevels, 0, bDrawPeaks))
    /\ UNCHANGED <<m_nHeight, m_Rotation, m_PartLevels, m_PeakLevels, m_TextBuffer,
                   fontCall, barCall>>

PrintText ==
    /\ Ready
    /\ Constructed
    /\ \E a \in PrintArgs, bClearLine \in BOOLEAN, bImmediate \in BOOLEAN, ok \in BOOLEAN :
          /\ ~bImmediate => ok
          /\ Finish("Print", <<a[1], a[2], a[3], bClearLine, bImmediate>>, -1, "void",
                    PrintOn(Begin, m_nHeight, a[1], a[2], a[3], bClearLine, bImmediate, ok))
    /\ UNCHANGED <<m_nHeight, m_Rotation, m_PartLevels, m_PeakLevels, m_TextBuffer,
                   fontCall, barCall>>

Clear ==
    /\ Ready
    /\ Constructed
    /\ \E bImmediate \in BOOLEAN, ok \in BOOLEAN :
          /\ ~bImmediate => ok
          /\ LET st1 == [Begin EXCEPT !.fb = Cleared(m_Framebuffer, m_nHeight)]
             IN  Finish("Clear", <<bImmediate>>, -1, "void",
                        IF bImmediate THEN Flushed(st1, m_nHeight, ok) ELSE st1)
    /\ UNCHANGED <<m_nHeight, m_Rotation, m_PartLevels, m_PeakLevels, m_TextBuffer,
                   fontCall, barCall>>

\* CMT32LCD::Update, UpdatePartLevels and UpdatePeakLevels refresh the text
\* buffer and the levels from the synth
Update ==
    /\ Ready
    /\ Constructed
    /\ \E in \in UpdateInputs, ok \in BOOLEAN :
          /\ m_TextBuffer' = in.text
          /\ m_PartLevels' = in.part
          /\ m_PeakLevels' = in.peak
          /\ LET statusRow == IF m_nHeight = 32 THEN 1 ELSE 3
                 st1 == DrawPartLevelsOn(Begin, m_nHeight, in.part, in.peak, 0,
                                         DefaultDrawPeaks)
                 st2 == PrintOn(st1, m_nHeight, in.text, 0, statusRow, TRUE,
                                DefaultImmediate, TRUE)
             IN  Finish("Update", <<in>>, -1, "void", Flushed(st2, m_nHeight, ok))
    /\ UNCHANGED <<m_nHeight, m_Rotation, fontCall, barCall>>

----
(* Specifications *)

\* CSSD1306::CSSD1306: m_Framebuffer{0x40}, the other bytes zero
InitDriver(configs, ops) ==
    /\ \E c \in configs : m_nHeight = c[1] /\ m_Rotation = c[2]
    /\ m_Framebuffer = [idx \in 0..(FramebufferSize - 1) |-> IF idx = 0 THEN ControlByte ELSE 0]
    /\ m_PartLevels = ZeroLevels
    /\ m_PeakLevels = ZeroLevels
    /\ m_TextBuffer = <<>>
    /\ call = NoCall
    /\ setBefore = NoCall
    /\ ret = "none"
    /\ events = <<>>
    /\ overrun = FALSE
    /\ budget = ops

Init ==
    /\ InitDriver(Configurations, MaxOps)
    /\ fontCall = FontIdle
    /\ barCall = BarIdle

Next ==
    \/ Initialize
    \/ WriteFramebuffer
    \/ SetPixel
    \/ ClearPixel
    \/ DrawChar
    \/ DrawPartLevels
    \/ PrintText
    \/ Clear
    \/ Update

Spec == Init /\ [][Next]_vars

\* the pixel primitives alone, in longer runs
InitPixel ==
    /\ InitDriver(Configurations, MaxPixelOps)
    /\ fontCall = FontIdle
    /\ barCall = BarIdle

NextPixel ==
    \/ SetPixel
    \/ ClearPixel
    \/ Clear

SpecPixel == InitPixel /\ [][NextPixel]_vars

\* the font conversion of one glyph column
InitFont ==
    /\ InitDriver({<<64, "Normal">>}, 0)
    /\ \E g \in GlyphSet, c \in 0..5 :
          fontCall = [FontIdle EXCEPT !.state = "input", !.CharData = g, !.nColumn = c]
    /\ barCall = BarIdle

NextFont == FontConvert

SpecFont == InitFont /\ [][NextFont]_vars

\* the page bytes of one part
InitBar ==
    /\ InitDriver({<<64, "Normal">>}, 0)
    /\ fontCall = FontIdle
    /\ \E h \in Heights, n \in 0..LevelSteps, p \in 0..LevelSteps, b \in BOOLEAN :
          barCall = [BarIdle EXCEPT !.state = "input", !.nHeight = h, !.part = n,
                                    !.peak = p, !.bDrawPeaks = b]

NextBar == BarRasterize

SpecBar == InitBar /\ [][NextBar]_vars

----
(* Properties *)

\* the framebuffer layout of the display: the byte of column x on page y / 8
\* follows the control byte, bit y % 8 of it is pixel (x, y)
ByteOf(x, y) == 1 + (y \div 8) * 128 + x

PixelSet(x, y) == Bit(m_Framebuffer[ByteOf(x, y)], y % 8) = 1

IsDraw(e) == e.kind = "DrawChar"

IsWrite(e) == e.kind = "Write"

\* C1: Initialize() on a driver whose height is neither 32 nor 64 returns
\* failure and sends nothing over the bus transport.
C1_InitializeRejectsHeight ==
    (call.op = "Initialize" /\ m_nHeight \notin {32, 64})
        => (ret = "false" /\ events = <<>>)

C1_Witness == call.op = "Initialize" /\ m_nHeight = 48 /\ ret = "false"

\* SetPixel(x, y) directly followed by ClearPixel(x, y)
SetThenClear ==
    /\ call.op = "ClearPixel"
    /\ setBefore.op = "SetPixel"
    /\ setBefore.args = call.args

\* x = 255 addresses the byte and bit of x = 127: after SetPixel(255, y) pixel
\* (127, y mod 64) is set and the byte found was its byte, after
\* ClearPixel(255, y) it is unset
WrapsTo127 ==
    (call.op \in {"SetPixel", "ClearPixel"} /\ call.args[1] = 255)
        => /\ PixelSet(127, call.args[2] % 64) <=> (call.op = "SetPixel")
           /\ \A b \in (0..7) \ {call.args[2] % 8} :
                 Bit(m_Framebuffer[ByteOf(127, call.args[2] % 64)], b) = Bit(call.old, b)

\* C2 as stated: for every framebuffer state and every x and y, SetPixel(x, y)
\* followed by ClearPixel(x, y) restores the exact prior value of the affected
\* byte, and x = 255 addresses the byte and bit of x = 127.
C2_RestoresPriorByte ==
    /\ SetThenClear =>
          m_Framebuffer[ByteOf(call.args[1] % 128, call.args[2] % 64)] = setBefore.old
    /\ WrapsTo127

\* C2 amended: SetPixel(x, y) followed by ClearPixel(x, y) leaves the affected
\* byte at its prior value with bit y mod 8 cleared, which is the exact prior
\* value when pixel (x, y) was unset before; x = 255 addresses the byte and
\* bit of x = 127.
C2_ClearsTheBit ==
    /\ SetThenClear =>
          LET b   == call.args[2] % 8
              now == m_Framebuffer[ByteOf(call.args[1] % 128, call.args[2] % 64)]
          IN  /\ now = setBefore.old - Bit(setBefore.old, b) * Pow2(b)
              /\ Bit(setBefore.old, b) = 0 => now = setBefore.old
    /\ WrapsTo127

C2_Witness ==
    /\ SetThenClear
    /\ call.args[1] = 255
    /\ setBefore.old # 0
    /\ m_Framebuffer[ByteOf(127, call.args[2] % 64)] = setBefore.old

\* C3: after any sequence of drawing calls, Clear() leaves every pixel (x, y),
\* x in 0..127 and y in 0..63, unset on both display heights, and the control
\* byte unchanged.
C3_ClearUnsetsEveryPixel ==
    call.op = "Clear"
        => /\ \A x \in 0..127, y \in 0..63 : ~PixelSet(x, y)
           /\ m_Framebuffer[0] = ControlByte

\* C4: Print(text, x, y, clearLine, immediate) with x < 20 blits exactly
\* min(len(text), 20 - x) text glyphs into cells x, x + 1, ... of row y, then
\* with clearLine a space into every cell up to column 19; it writes nothing
\* to the transport when immediate is false and flushes exactly once, after
\* all drawing, when immediate is true.
C4_PrintBlits ==
    (call.op = "Print" /\ call.args[2] < 20)
        => LET pText  == call.args[1]
               x      == call.args[2]
               n      == Min(Len(pText), 20 - x)
               draws  == SelectSeq(events, IsDraw)
               writes == SelectSeq(events, IsWrite)
           IN  /\ Len(draws) = IF call.args[4] THEN 20 - x ELSE n
               /\ \A i \in 1..Len(draws) :
                     /\ events[i] = draws[i]
                     /\ draws[i].nCursorX = x + i - 1
                     /\ draws[i].nCursorY = call.args[3]
                     /\ draws[i].chChar = IF i <= n THEN pText[i] ELSE 32
               /\ Len(writes) = IF call.args[5] THEN 1 ELSE 0
               /\ \A i \in 1..Len(writes) :
                     /\ writes[i].len = m_nHeight * 16 + 1
                     /\ writes[i].first = m_Framebuffer[0]
                     /\ writes[i].second = m_Framebuffer[1]

C4_Witness ==
    /\ call.op = "Print"
    /\ call.args[2] = 0
    /\ Len(call.args[1]) = 3
    /\ call.args[4]
    /\ call.args[5]
    /\ Len(events) = 21
    /\ events[21].kind = "Write"

\* the bar of one part as pixels: pixel h, counted from the bottom of the
\* bar, is bit 7 - h mod 8 of page h / 8
BarLit(h) == Bit(barCall.pageValues[h \div 8], 7 - (h % 8)) = 1

BarDone == barCall.state = "done"

BarPages == barCall.nHeight \div 8 - 2

BarPixels == barCall.nHeight - 16

\* C5: with no peak drawn, pages 0..fullPages-1 hold 0xFF, page fullPages
\* holds (0xFF << (8 - remainder)) mod 256 when remainder > 0, every other
\* page holds 0; level 0.5 on the 64-pixel display gives three full pages.
C5_LevelPages ==
    (BarDone /\ (~barCall.bDrawPeaks \/ barCall.peakLevelPixels = 0))
        => LET px        == barCall.partLevelPixels
               fullPages == px \div 8
               remainder == px % 8
           IN  /\ px \in 0..BarPixels
               /\ DOMAIN barCall.pageValues = 0..(BarPages - 1)
               /\ \A p \in 0..(BarPages - 1) :
                     barCall.pageValues[p] =
                         IF p < fullPages THEN 255
                         ELSE IF p = fullPages /\ remainder > 0
                              THEN (255 * Pow2(8 - remainder)) % 256
                              ELSE 0
               /\ (barCall.nHeight = 64 /\ 2 * barCall.part = LevelSteps)
                     => /\ fullPages = 3
                        /\ remainder = 0
                        /\ \A p \in 0..5 : barCall.pageValues[p] = IF p < 3 THEN 255 ELSE 0

C5_Witness ==
    /\ BarDone
    /\ ~barCall.bDrawPeaks
    /\ barCall.nHeight = 64
    /\ 2 * barCall.part = LevelSteps
    /\ barCall.pageValues[2] = 255
    /\ barCall.pageValues[3] = 0

\* a part rasterized with its peak marker
PeakCase == BarDone /\ barCall.bDrawPeaks /\ barCall.peakLevelPixels \in 1..BarPixels

\* the marker bit named by the claim: bit 8 - remainder of page peakPage, or
\* bit 0 of page peakPage - 1 on an exact multiple of 8
PeakBitSet ==
    LET peakPage  == barCall.peakLevelPixels \div 8
        remainder == barCall.peakLevelPixels % 8
    IN  IF remainder > 0
        THEN Bit(barCall.pageValues[peakPage], 8 - remainder) = 1
        ELSE Bit(barCall.pageValues[peakPage - 1], 0) = 1

\* C6 as stated: the peak marker is the pixel one above the top of the region
\* a level of peakPixels pixels fills, at the bit the claim names.
C6_MarkerAboveRegion ==
    PeakCase
        => /\ \A h \in 0..(BarPixels - 1) :
                 BarLit(h) <=> (h < barCall.partLevelPixels \/ h = barCall.peakLevelPixels)
           /\ PeakBitSet

\* C6 amended: the peak marker is the topmost pixel of the region a level of
\* peakPixels pixels fills (pixel peakPixels - 1 from the bottom), at the bit
\* the claim names; no other pixel above the level is lit.
C6_MarkerOnTopOfRegion ==
    PeakCase
        => /\ \A h \in 0..(BarPixels - 1) :
                 BarLit(h) <=> (h < barCall.partLevelPixels \/ h = barCall.peakLevelPixels - 1)
           /\ PeakBitSet

C6_Witness ==
    /\ PeakCase
    /\ barCall.nHeight = 64
    /\ barCall.peakLevelPixels = 16
    /\ barCall.partLevelPixels = 0
    /\ barCall.pageValues[1] = 1
    /\ barCall.pageValues[2] = 0

\* C7: bit i of SingleColumn(glyph, c) is bit 5 - c of glyph row i, and
\* DoubleColumn(glyph, c) is the 16-bit value whose bits 2i and 2i + 1 both
\* equal bit i of SingleColumn(glyph, c).
C7_ColumnBits ==
    fontCall.state = "done"
        => /\ fontCall.single \in 0..255
           /\ fontCall.double \in 0..65535
           /\ \A i \in 0..7 :
                 /\ Bit(fontCall.single, i) = Bit(fontCall.CharData[i], 5 - fontCall.nColumn)
                 /\ Bit(fontCall.double, 2 * i) = Bit(fontCall.single, i)
                 /\ Bit(fontCall.double, 2 * i + 1) = Bit(fontCall.single, i)

C7_Witness ==
    /\ fontCall.state = "done"
    /\ fontCall.nColumn = 0
    /\ fontCall.single = 5
    /\ fontCall.double = 51

\* C8: a failed transport write is propagated to the caller: Initialize does
\* not return success, and a flush signals the failure.
C8_FailurePropagated ==
    (\E i \in 1..Len(events) : events[i].kind = "Write" /\ ~events[i].ok)
        => IF call.op = "Initialize" THEN ret # "true" ELSE ret = "false"

\* C9: framebuffer byte 0 holds 0x40 from construction on, whatever is drawn,
\* and every flush transmits 0x40 as its first byte.
C9_ControlByteKept ==
    /\ m_Framebuffer[0] = 64
    /\ \A i \in 1..Len(events) :
          (events[i].kind = "Write" /\ events[i].len = m_nHeight * 16 + 1)
              => events[i].first = 64

C9_Witness ==
    /\ call.op = "Update"
    /\ events[Len(events)].kind = "Write"
    /\ events[Len(events)].first = 64
    /\ \E idx \in 1..(FramebufferSize - 1) : m_Framebuffer[idx] = 255

\* C10: for levels and peaks in [0, 1] every store into the page array of a
\* part has an index in 0..totalPages-1, and a peak of 0 pixels draws no marker.
C10_PageIndexInRange ==
    BarDone
        => /\ barCall.partLevelPixels \in 0..BarPixels
           /\ barCall.peakLevelPixels \in 0..BarPixels
           /\ barCall.stores \subseteq 0..(BarPages - 1)
           /\ barCall.peakLevelPixels = 0
                 => \A h \in 0..(BarPixels - 1) : BarLit(h) <=> h < barCall.partLevelPixels

C10_Witness ==
    /\ BarDone
    /\ barCall.bDrawPeaks
    /\ barCall.peakLevelPixels = 0
    /\ barCall.partLevelPixels = BarPixels
    /\ barCall.stores = 0..(BarPages - 1)

====
